---------------------------- MODULE Spec2Model ----------------------------
(* Model of the `mif` crate (src/src/lib.rs, src/src/cli.rs):              *)
(*   - the Mif<u128> structure and its operations new, area, push, join,   *)
(*     read (specification SpecMif);                                       *)
(*   - the join() orchestration over binary files and memory areas         *)
(*     (specification SpecJoin).                                           *)
(* A u128 word is kept as its bytes, most significant byte first, so that  *)
(* values up to 2^128 - 1 and the shift `1 << width` keep their width.     *)
EXTENDS Integers, Sequences, FiniteSets, TLC

VARIABLES
    \* build profile: TRUE when overflow checks are compiled in (debug)
    checks,
    \* ---- SpecMif: one Mif<u128> object and the last call made on it ----
    mif,        \* the object: NoMif or [width, depth, words, areas]
    call,       \* the last call: [op, ret, width, word, bulk, n, bytes,
                \* left, areas]; bytes and left
                \* are the source of dump() and what the call left of it
    total,      \* sum of the run lengths of all pushes executed on mif
    lines,      \* the lines the last call wrote to its writer
    \* ---- SpecJoin: one run of join(files, paths, areas) ----
    pc,         \* position in join()
    ret,        \* result of join(): [err, n], err "Running", "Ok" or the error
    nfiles,     \* number of `files` entries iterated so far
    bin_path,   \* key of the current `files` entry
    bin_file,   \* unread bytes of the current binary file
    bin_len,    \* length of the current binary file
    nareas,     \* number of areas of the current file iterated so far
    mif_area,   \* the transient Mif of the current area
    ti,         \* index in mifs of the next accumulator of the write loop
    mifs,       \* IndexMap mif_path -> (mif_file, Mif), in insertion order
    disk,       \* destination files: mif_path -> "Old" | "Empty" | "Written"
    writes,     \* mif_path -> number of times Mif::write ran for it
    hist        \* areas read so far, in declaration order:
                \* [file, width, depth, instr, words, used]

mvars == <<mif, call, total, lines>>
jvars == <<pc, ret, nfiles, bin_path, bin_file, bin_len, nareas,
           mif_area, ti, mifs, disk, writes, hist>>
vars == <<checks, mif, call, total, lines, pc, ret, nfiles, bin_path, bin_file,
          bin_len, nareas, mif_area, ti, mifs, disk, writes, hist>>

-----------------------------------------------------------------------------
(* Bounds of the model.                                                    *)

\* largest run length given to one push
MaxBulk == 2
\* cap on Mif.depth in SpecMif
MaxDepth == 2
\* cap on the number of entries of Mif.areas in SpecMif
MaxLog == 2
\* largest number of entries of the `other` Mif given to Mif::join
MaxOther == 2
\* largest number of bytes of a reader given to Mif::read in SpecMif
MaxBytes == 2
\* largest number of areas declared over all files in SpecJoin
MaxAreas == 2

-----------------------------------------------------------------------------
(* u128 arithmetic.                                                        *)

\* size of u128 in bytes
U128Bytes == 16
\* size of u128 in bits
U128Bits == 128

\* A u128 is the sequence of its bytes, most significant first, without
\* leading zero bytes: zero is <<>>, 255 is <<255>>, 256 is <<1, 0>>.
RECURSIVE Strip(_)
Strip(b) == IF b = <<>> \/ b[1] # 0 THEN b ELSE Strip(Tail(b))

\* n as u128, for 0 <= n < 2^24
FromNat(n) == Strip(<<n \div 65536, (n \div 256) % 256, n % 256>>)

\* u128::MAX
AllOnes == [i \in 1..U128Bytes |-> 255]

\* a < b on u128
Lt(a, b) ==
    \/ Len(a) < Len(b)
    \/ /\ Len(a) = Len(b)
       /\ \E i \in 1..Len(a) :
            /\ a[i] < b[i]
            /\ \A j \in 1..(i - 1) : a[j] = b[j]

\* number of significant bits of a byte
ByteBits(b) ==
    IF b = 0 THEN 0 ELSE CHOOSE k \in 1..8 : 2 ^ (k - 1) <= b /\ b < 2 ^ k

\* number of significant bits of a u128 (0 for zero)
BitLen(a) == IF a = <<>> THEN 0 ELSE 8 * (Len(a) - 1) + ByteBits(a[1])

\* 1u128 << n for n < 128
Shl1(n) == <<2 ^ (n % 8)>> \o [i \in 1..(n \div 8) |-> 0]

\* T::one().unsigned_shl(n) for T = u128: `<<` panics on a shift amount of
\* 128 or more when overflow checks are compiled in, and masks the amount
\* to its low 7 bits otherwise.
unsigned_shl(n, chk) ==
    IF n < U128Bits THEN [panic |-> FALSE, val |-> Shl1(n)]
    ELSE IF chk THEN [panic |-> TRUE, val |-> Shl1(0)]
    ELSE [panic |-> FALSE, val |-> Shl1(n % U128Bits)]

-----------------------------------------------------------------------------
(* The Mif<u128> structure.                                                *)

\* bounds of the word width accepted by Mif::new
MinWidth == 8
MaxWidth == 128

NoMif == [width |-> 0, depth |-> 0, words |-> <<>>, areas |-> <<>>]

\* Mif::new(width)
Mif_new(width) ==
    IF width >= MinWidth /\ width <= MaxWidth
    THEN [ret |-> "Ok",
          mif |-> [width |-> width, depth |-> 0, words |-> <<>>, areas |-> <<>>]]
    ELSE [ret |-> "Word width out of [8, 128]", mif |-> NoMif]

\* align that rounds down
Mif_align_floor(m) == m.width \div 8

\* Mif::align(): (width as f64 / 8.0).ceil() as usize
Mif_align(m) ==
    IF m.width % 8 = 0 THEN m.width \div 8 ELSE (m.width \div 8) + 1

\* area that puts the entry in front of the log
Mif_area_front(m, area) ==
    [m EXCEPT !.areas = <<<<m.depth, area>>>> \o m.areas]

\* Mif::area(area)
Mif_area(m, area) ==
    [m EXCEPT !.areas = Append(m.areas, <<m.depth, area>>)]

\* push that never adds up the bulk of an equal last word
Mif_push_no_merge(m, word, bulk, chk) ==
    LET d == [m EXCEPT !.depth = m.depth + bulk]
        lim == unsigned_shl(m.width, chk)
    IN  IF lim.panic THEN [ret |-> "Panic", mif |-> d]
        ELSE IF ~Lt(word, lim.val)
        THEN [ret |-> "Word exceeds width", mif |-> d]
        ELSE IF bulk > 0
        THEN [ret |-> "Ok",
              mif |-> [d EXCEPT !.words = Append(m.words, <<word, bulk>>)]]
        ELSE [ret |-> "Ok", mif |-> d]

\* push that advances depth only where it appends a new entry
Mif_push_depth_on_append(m, word, bulk, chk) ==
    LET n == Len(m.words)
    IN  IF n > 0 /\ m.words[n][1] = word
        THEN [ret |-> "Ok",
              mif |-> [m EXCEPT !.words[n] = <<word, m.words[n][2] + bulk>>]]
        ELSE LET lim == unsigned_shl(m.width, chk)
             IN  IF lim.panic THEN [ret |-> "Panic", mif |-> m]
                 ELSE IF ~Lt(word, lim.val)
                 THEN [ret |-> "Word exceeds width", mif |-> m]
                 ELSE IF bulk > 0
                 THEN [ret |-> "Ok",
                       mif |-> [m EXCEPT !.depth = m.depth + bulk,
                                         !.words = Append(m.words, <<word, bulk>>)]]
                 ELSE [ret |-> "Ok", mif |-> m]

\* push that leaves depth alone where it fails
Mif_push_check_first(m, word, bulk, chk) ==
    LET d == [m EXCEPT !.depth = m.depth + bulk]
        n == Len(m.words)
    IN  IF n > 0 /\ m.words[n][1] = word
        THEN [ret |-> "Ok",
              mif |-> [d EXCEPT !.words[n] = <<word, m.words[n][2] + bulk>>]]
        ELSE LET lim == unsigned_shl(m.width, chk)
             IN  IF lim.panic THEN [ret |-> "Panic", mif |-> m]
                 ELSE IF ~Lt(word, lim.val)
                 THEN [ret |-> "Word exceeds width", mif |-> m]
                 ELSE IF bulk > 0
                 THEN [ret |-> "Ok",
                       mif |-> [d EXCEPT !.words = Append(m.words, <<word, bulk>>)]]
                 ELSE [ret |-> "Ok", mif |-> d]

\* push that appends an entry whatever its run length
Mif_push_append_empty(m, word, bulk, chk) ==
    LET d == [m EXCEPT !.depth = m.depth + bulk]
        n == Len(m.words)
    IN  IF n > 0 /\ m.words[n][1] = word
        THEN [ret |-> "Ok",
              mif |-> [d EXCEPT !.words[n] = <<word, m.words[n][2] + bulk>>]]
        ELSE LET lim == unsigned_shl(m.width, chk)
             IN  IF lim.panic THEN [ret |-> "Panic", mif |-> d]
                 ELSE IF ~Lt(word, lim.val)
                 THEN [ret |-> "Word exceeds width", mif |-> d]
                 ELSE [ret |-> "Ok",
                       mif |-> [d EXCEPT !.words = Append(m.words, <<word, bulk>>)]]

\* Mif::push(word, bulk)
Mif_push(m, word, bulk, chk) ==
    LET d == [m EXCEPT !.depth = m.depth + bulk]
        n == Len(m.words)
    IN  IF n > 0 /\ m.words[n][1] = word
        THEN [ret |-> "Ok",
              mif |-> [d EXCEPT !.words[n] = <<word, m.words[n][2] + bulk>>]]
        ELSE LET lim == unsigned_shl(m.width, chk)
             IN  IF lim.panic THEN [ret |-> "Panic", mif |-> d]
                 ELSE IF ~Lt(word, lim.val)
                 THEN [ret |-> "Word exceeds width", mif |-> d]
                 ELSE IF bulk > 0
                 THEN [ret |-> "Ok",
                       mif |-> [d EXCEPT !.words = Append(m.words, <<word, bulk>>)]]
                 ELSE [ret |-> "Ok", mif |-> d]

\* other.words.iter().try_for_each(|&(word, bulk)| self.push(word, bulk)),
\* from entry i on; n counts the pushes executed
RECURSIVE try_for_each(_, _, _, _)
try_for_each(m, ws, i, chk) ==
    IF i > Len(ws) THEN [ret |-> "Ok", mif |-> m, n |-> i - 1]
    ELSE LET r == Mif_push(m, ws[i][1], ws[i][2], chk)
         IN  IF r.ret # "Ok" THEN [ret |-> r.ret, mif |-> r.mif, n |-> i]
             ELSE try_for_each(r.mif, ws, i + 1, chk)

\* join that pushes every word of `other` once, whatever its bulk
Mif_join_unit(m, other, chk) ==
    try_for_each(m, [i \in 1..Len(other.words) |-> <<other.words[i][1], 1>>],
                 1, chk)

\* join that gives back the Mif as it was where a push fails
Mif_join_rollback(m, other, chk) ==
    LET r == try_for_each(m, other.words, 1, chk)
    IN  IF r.ret = "Ok" THEN r ELSE [r EXCEPT !.mif = m]

\* Mif::join(other)
Mif_join(m, other, chk) == try_for_each(m, other.words, 1, chk)

\* read_uint128 with the byte orders exchanged
read_uint128_swapped(b, align, first) ==
    IF first = "Msb"
    THEN Strip([i \in 1..align |-> b[align + 1 - i]])
    ELSE Strip([i \in 1..align |-> b[i]])

\* bytes.read_uint128::<LE>(align) / ::<BE>(align) on exactly align bytes
read_uint128(b, align, first) ==
    IF first = "Lsb"
    THEN Strip([i \in 1..align |-> b[align + 1 - i]])
    ELSE Strip([i \in 1..align |-> b[i]])

\* the loop of Mif::read: `left` iterations remain, `words` were counted
RECURSIVE read_loop(_, _, _, _, _, _, _)
read_loop(m, bytes, depth, left, words, first, chk) ==
    IF left = 0
    THEN [ret |-> IF depth = words THEN "Ok" ELSE "Not enough words",
          mif |-> m, rest |-> bytes, n |-> words]
    ELSE LET align == Mif_align(m)
         IN  IF Len(bytes) < align
             THEN [ret |-> "UnexpectedEof", mif |-> m, rest |-> <<>>, n |-> words]
             ELSE LET word == read_uint128(SubSeq(bytes, 1, align), align, first)
                      rest == SubSeq(bytes, align + 1, Len(bytes))
                      r == Mif_push(m, word, 1, chk)
                  IN  IF r.ret # "Ok"
                      THEN [ret |-> r.ret, mif |-> r.mif, rest |-> rest,
                            n |-> words + 1]
                      ELSE read_loop(r.mif, rest, depth, left - 1, words + 1,
                                     first, chk)

\* Mif::read(bytes, depth, first)
Mif_read(m, bytes, depth, first, chk) ==
    read_loop(m, bytes, depth, depth, 0, first, chk)

-----------------------------------------------------------------------------
(* Mif::write and dump().                                                  *)

\* the hexadecimal digits of n, most significant first, "0" for zero
RECURSIVE HexDigits(_)
HexDigits(n) ==
    IF n < 16 THEN <<n>> ELSE Append(HexDigits(n \div 16), n % 16)

\* digits d filled with zeros on the left up to pad digits
ZeroPad(d, pad) ==
    IF Len(d) >= pad THEN d ELSE [i \in 1..(pad - Len(d)) |-> 0] \o d

\* format!("{:01$X}", n, pad) of an address
HexAddr(n, pad) == ZeroPad(HexDigits(n), pad)

\* the hexadecimal digits of a u128, two per byte
RECURSIVE Nibbles(_)
Nibbles(w) ==
    IF w = <<>> THEN <<>>
    ELSE <<w[1] \div 16, w[1] % 16>> \o Nibbles(Tail(w))

\* format!("{:01$X}", word, pad) of a u128
HexWord(w, pad) ==
    LET d == Strip(Nibbles(w))
    IN  ZeroPad(IF d = <<>> THEN <<0>> ELSE d, pad)

\* (self.depth as f64).log(16.0).ceil() as usize: the logarithm of 0 is
\* -inf, which the cast saturates to 0
addr_pads(m) ==
    IF m.depth <= 1 THEN 0
    ELSE CHOOSE k \in 1..7 : 16 ^ (k - 1) < m.depth /\ m.depth <= 16 ^ k

\* (self.width as f64 / 4.0).ceil() as usize
word_pads(m) == (m.width + 3) \div 4

\* one line of output
Line(kind, a, b, w, text) ==
    [kind |-> kind, a |-> a, b |-> b, w |-> w, text |-> text]
Blank == Line("", <<>>, <<>>, <<>>, "")

\* area comments whatever the flag says
comment_calls_always(m, areas) ==
    IF m.areas # <<>>
    THEN [i \in 1..Len(m.areas) |->
             << Line("--", HexAddr(m.areas[i][1], addr_pads(m)), <<>>, <<>>,
                     m.areas[i][2]) >>]
         \o << <<Blank>> >>
    ELSE <<>>

\* the lines of each writeln! of Mif::write, in the order of the calls
comment_calls(m, areas) ==
    IF areas /\ m.areas # <<>>
    THEN [i \in 1..Len(m.areas) |->
             << Line("--", HexAddr(m.areas[i][1], addr_pads(m)), <<>>, <<>>,
                     m.areas[i][2]) >>]
         \o << <<Blank>> >>
    ELSE <<>>

header_call(m) ==
    << Line("WIDTH", <<>>, <<>>, <<>>, ToString(m.width)),
       Line("DEPTH", <<>>, <<>>, <<>>, ToString(m.depth)),
       Blank,
       Line("ADDRESS_RADIX", <<>>, <<>>, <<>>, "HEX"),
       Line("DATA_RADIX", <<>>, <<>>, <<>>, "HEX"),
       Blank,
       Line("CONTENT BEGIN", <<>>, <<>>, <<>>, "") >>

\* the content loop with the end of a range one past its last address
RECURSIVE content_calls_end_past(_, _, _)
content_calls_end_past(m, i, addr) ==
    IF i > Len(m.words) THEN <<>>
    ELSE LET word == m.words[i][1]
             bulk == m.words[i][2]
         IN  << << IF bulk = 1
                   THEN Line("single", HexAddr(addr, addr_pads(m)), <<>>,
                             HexWord(word, word_pads(m)), "")
                   ELSE Line("range", HexAddr(addr, addr_pads(m)),
                             HexAddr(addr + bulk, addr_pads(m)),
                             HexWord(word, word_pads(m)), "") >> >>
             \o content_calls_end_past(m, i + 1, addr + bulk)

\* `for &(word, bulk) in &self.words` from entry i on, at address addr
RECURSIVE content_calls(_, _, _)
content_calls(m, i, addr) ==
    IF i > Len(m.words) THEN <<>>
    ELSE LET word == m.words[i][1]
             bulk == m.words[i][2]
         IN  << << IF bulk = 1
                   THEN Line("single", HexAddr(addr, addr_pads(m)), <<>>,
                             HexWord(word, word_pads(m)), "")
                   ELSE Line("range", HexAddr(addr, addr_pads(m)),
                             HexAddr(addr + bulk - 1, addr_pads(m)),
                             HexWord(word, word_pads(m)), "") >> >>
             \o content_calls(m, i + 1, addr + bulk)

end_call == << Line("END", <<>>, <<>>, <<>>, "") >>

\* the lines of the first n calls
RECURSIVE Flatten(_, _)
Flatten(calls, n) ==
    IF n = 0 THEN <<>> ELSE Flatten(calls, n - 1) \o calls[n]

\* a writer that takes every writeln!
NoLimit == -1

\* Mif::write(lines, areas) on a writer that takes `room` writeln! calls
\* and fails the next one
Mif_write(m, areas, room) ==
    LET calls == comment_calls(m, areas) \o <<header_call(m)>>
                 \o content_calls(m, 1, 0) \o <<end_call>>
    IN  IF room = NoLimit \/ room >= Len(calls)
        THEN [ret |-> "Ok", lines |-> Flatten(calls, Len(calls))]
        ELSE [ret |-> "io", lines |-> Flatten(calls, room)]

\* dump without the check of the byte count
dump_any_count(bytes, count, width, first, room, chk) ==
    LET made == Mif_new(width)
        none == [ret |-> made.ret, mif |-> made.mif, n |-> 0,
                 left |-> Len(bytes), lines |-> <<>>]
    IN  IF made.ret # "Ok" THEN none
        ELSE
        LET r == Mif_read(made.mif, bytes, count \div Mif_align(made.mif),
                          first, chk)
            w == Mif_write(r.mif, FALSE, room)
        IN  IF r.ret # "Ok"
            THEN [none EXCEPT !.ret = IF r.ret = "Panic" THEN "Panic"
                                      ELSE "Cannot read input",
                              !.mif = r.mif, !.n = r.n, !.left = Len(r.rest)]
            ELSE [ret |-> IF w.ret = "Ok" THEN "Ok" ELSE "Cannot write MIF",
                  mif |-> r.mif, n |-> r.n, left |-> Len(r.rest),
                  lines |-> w.lines]

\* dump(lines, bytes, count, width, first)
dump(bytes, count, width, first, room, chk) ==
    LET made == Mif_new(width)
        none == [ret |-> made.ret, mif |-> made.mif, n |-> 0,
                 left |-> Len(bytes), lines |-> <<>>]
    IN  IF made.ret # "Ok" THEN none
        ELSE
        LET align == Mif_align(made.mif)
            depth == count \div align
            r == Mif_read(made.mif, bytes, depth, first, chk)
            w == Mif_write(r.mif, FALSE, room)
        IN  IF depth * align # count
            THEN [none EXCEPT !.ret = "No integral multiple of word width"]
            ELSE IF r.ret # "Ok"
            THEN [none EXCEPT !.ret = IF r.ret = "Panic" THEN "Panic"
                                      ELSE "Cannot read input",
                              !.mif = r.mif, !.n = r.n, !.left = Len(r.rest)]
            ELSE [ret |-> IF w.ret = "Ok" THEN "Ok" ELSE "Cannot write MIF",
                  mif |-> r.mif, n |-> r.n, left |-> Len(r.rest),
                  lines |-> w.lines]

-----------------------------------------------------------------------------
(* Inputs of SpecMif.                                                      *)

NewWidths == {0, 1, 7, 8, 12, 128, 129}
WordVals == {FromNat(0), FromNat(255), FromNat(256), AllOnes}
Labels == {"a.rom"}
Firsts == {"Lsb", "Msb"}
ByteVals == {0, 255}

\* all byte sequences of length at most n over ByteVals
ByteSeqs(n) == UNION {[1..k -> ByteVals] : k \in 0..n}

\* Mifs built by Mif::new and at most k successful pushes
RECURSIVE Built(_, _)
Built(k, chk) ==
    IF k = 0
    THEN {Mif_new(w).mif : w \in {w \in NewWidths : Mif_new(w).ret = "Ok"}}
    ELSE LET B == Built(k - 1, chk)
         IN  B \cup {Mif_push(m, v, b, chk).mif :
                       <<m, v, b>> \in {x \in B \X WordVals \X (1..MaxBulk) :
                           Mif_push(x[1], x[2], x[3], chk).ret = "Ok"}}

\* the `other` arguments of Mif::join, per build profile
OthersChecked == {m \in Built(MaxOther, TRUE) : m.depth <= MaxDepth}
OthersWrapping == {m \in Built(MaxOther, FALSE) : m.depth <= MaxDepth}
Others == IF checks THEN OthersChecked ELSE OthersWrapping

\* the readers given to Mif::read and dump()
Readers == ByteSeqs(MaxBytes)

\* the writers given to Mif::write and dump(), by the number of writeln!
\* calls they take
Rooms == {0, 2, NoLimit}

SumBulk(ws, n) ==
    LET RECURSIVE S(_)
        S(i) == IF i = 0 THEN 0 ELSE ws[i][2] + S(i - 1)
    IN  S(n)

NoCall == [op |-> "none", ret |-> "Ok", width |-> 0, word |-> FromNat(0),
           bulk |-> 0, n |-> 0, bytes |-> <<>>, left |-> 0, areas |-> FALSE]

-----------------------------------------------------------------------------
(* SpecMif: calls on one Mif<u128>.                                        *)

\* a Mif was made by Mif::new and no call on it panicked; the Mif of dump()
\* is local to it. write takes &self and leaves the Mif as it is: the calls
\* behind a write lead where they lead without it, and are left out.
Alive ==
    /\ call.op \notin {"none", "dump", "write"}
    /\ call.ret # "Panic"
    /\ mif # NoMif

New(w) ==
    LET r == Mif_new(w)
    IN  /\ mif' = r.mif
        /\ call' = [NoCall EXCEPT !.op = "new", !.ret = r.ret, !.width = w]
        /\ total' = 0
        /\ lines' = <<>>
        /\ UNCHANGED <<checks, jvars>>

Area(label) ==
    /\ Alive
    /\ Len(mif.areas) < MaxLog
    /\ mif' = Mif_area(mif, label)
    /\ call' = [NoCall EXCEPT !.op = "area"]
    /\ lines' = <<>>
    /\ UNCHANGED <<checks, total, jvars>>

Push(word, bulk) ==
    /\ Alive
    /\ mif.depth + bulk <= MaxDepth
    /\ LET r == Mif_push(mif, word, bulk, checks)
       IN  /\ mif' = r.mif
           /\ call' = [NoCall EXCEPT !.op = "push", !.ret = r.ret, !.word = word,
                                     !.bulk = bulk, !.n = 1]
           /\ total' = total + bulk
    /\ lines' = <<>>
    /\ UNCHANGED <<checks, jvars>>

Join(other) ==
    /\ Alive
    /\ mif.depth + other.depth <= MaxDepth
    /\ LET r == Mif_join(mif, other, checks)
       IN  /\ mif' = r.mif
           /\ call' = [NoCall EXCEPT !.op = "join", !.ret = r.ret, !.n = r.n]
           /\ total' = total + SumBulk(other.words, r.n)
    /\ lines' = <<>>
    /\ UNCHANGED <<checks, jvars>>

Read(bytes, depth, first) ==
    /\ Alive
    /\ mif.depth + depth <= MaxDepth
    /\ LET r == Mif_read(mif, bytes, depth, first, checks)
       IN  /\ mif' = r.mif
           /\ call' = [NoCall EXCEPT !.op = "read", !.ret = r.ret, !.bulk = depth,
                                     !.n = r.n]
           /\ total' = total + r.n
    /\ lines' = <<>>
    /\ UNCHANGED <<checks, jvars>>

Write(areas, room) ==
    /\ Alive
    /\ LET r == Mif_write(mif, areas, room)
       IN  /\ lines' = r.lines
           /\ call' = [NoCall EXCEPT !.op = "write", !.ret = r.ret,
                                     !.areas = areas]
    /\ UNCHANGED <<checks, mif, total, jvars>>

\* dump() is a free function that builds its own Mif: it is taken as the
\* first call, and `mif` shows the Mif it built
Dump(bytes, count, width, first, room) ==
    /\ call.op = "none"
    /\ LET r == dump(bytes, count, width, first, room, checks)
       IN  /\ mif' = r.mif
           /\ call' = [NoCall EXCEPT !.op = "dump", !.ret = r.ret,
                                     !.width = width, !.bulk = count,
                                     !.n = r.n, !.bytes = bytes,
                                     !.left = r.left]
           /\ total' = r.n
           /\ lines' = r.lines
    /\ UNCHANGED <<checks, jvars>>

JIdle ==
    /\ pc = "idle" /\ ret = [err |-> "Ok", n |-> 0] /\ nfiles = 0
    /\ bin_path = "" /\ bin_file = <<>> /\ bin_len = 0 /\ nareas = 0
    /\ mif_area = NoMif /\ ti = 0
    /\ mifs = <<>> /\ disk = <<>> /\ writes = <<>> /\ hist = <<>>

InitMif ==
    /\ checks \in BOOLEAN
    /\ mif = NoMif
    /\ call = NoCall
    /\ total = 0
    /\ lines = <<>>
    /\ JIdle

NextMif ==
    \/ \E w \in NewWidths : New(w)
    \/ \E l \in Labels : Area(l)
    \/ \E v \in WordVals, b \in 0..MaxBulk : Push(v, b)
    \/ \E o \in Others : Join(o)
    \/ \E bs \in Readers, d \in 0..MaxBulk, f \in Firsts : Read(bs, d, f)
    \/ \E a \in BOOLEAN, room \in Rooms : Write(a, room)
    \/ \E bs \in Readers, c \in 0..MaxBytes, w \in NewWidths, f \in Firsts,
          room \in Rooms : Dump(bs, c, w, f, room)

SpecMif == InitMif /\ [][NextMif]_vars

-----------------------------------------------------------------------------
(* SpecRead: Mif::read alone, on new Mifs of widths of one to three bytes  *)
(* and on readers over more byte values.                                   *)

ReadWidths == {8, 12, 16, 24}
ReadVals == {0, 1, 2, 255}
ReadSources == UNION {[1..k -> ReadVals] : k \in 0..MaxBytes}

InitRead ==
    /\ checks \in BOOLEAN
    /\ \E w \in ReadWidths :
         /\ mif = Mif_new(w).mif
         /\ call = [NoCall EXCEPT !.op = "new", !.ret = Mif_new(w).ret,
                                  !.width = w]
    /\ total = 0
    /\ lines = <<>>
    /\ JIdle

\* one read on each new Mif
NextRead ==
    \E bs \in ReadSources, d \in 0..MaxBulk, f \in Firsts :
        call.op = "new" /\ Read(bs, d, f)

SpecRead == InitRead /\ [][NextRead]_vars

-----------------------------------------------------------------------------
(* join(files, paths, areas): the pieces of its loop body.                 *)

\* Word::as_word(): One(u64) zero-extended, Two([msb, lsb]) concatenated;
\* a u64 is kept as its 8 bytes, most significant first
as_word(w) ==
    IF w.tag = "One" THEN Strip(w.one) ELSE Strip(w.two[1] \o w.two[2])

\* the check with `any` in place of `all`
skips_any(words, skips) ==
    \E i \in 1..Len(words) :
        \E j \in 1..Len(skips) : as_word(skips[j]) = words[i][1]

\* mif_area.words().iter().all(|&(word, _bulk)|
\*     skips.iter().any(|skip| skip.as_word() == word))
skips_all(words, skips) ==
    \A i \in 1..Len(words) :
        \E j \in 1..Len(skips) : as_word(skips[j]) = words[i][1]

\* the Skips arm: Ok, or the error of the ensure
skips_arm(area, skips) ==
    IF Len(skips) # 0 /\ ~skips_all(area.words, skips)
    THEN "Invalid word to skip" ELSE "Ok"

\* mifs.contains_key(mif_path): its index in insertion order, 0 if absent
index_of(ms, mif_path) ==
    IF \E i \in 1..Len(ms) : ms[i].path = mif_path
    THEN CHOOSE i \in 1..Len(ms) : ms[i].path = mif_path
    ELSE 0

\* the body with area() called after join()
joins_body_area_last(ms, mif_path, width, path, area, chk) ==
    LET i == index_of(ms, mif_path)
        made == Mif_new(width)
    IN  IF i = 0 /\ made.ret # "Ok" THEN [ret |-> made.ret, mifs |-> ms]
        ELSE
        LET ms1 == IF i = 0
                   THEN Append(ms, [path |-> mif_path, data |-> made.mif])
                   ELSE ms
            k == IF i = 0 THEN Len(ms1) ELSE i
        IN  IF ms1[k].data.width # width
            THEN [ret |-> "Different width to join", mifs |-> ms1]
            ELSE LET r == Mif_join(ms1[k].data, area, chk)
                 IN  [ret |-> r.ret,
                      mifs |-> [ms1 EXCEPT ![k].data = Mif_area(r.mif, path)]]

\* the body without the comparison of the widths
joins_body_any_width(ms, mif_path, width, path, area, chk) ==
    LET i == index_of(ms, mif_path)
        made == Mif_new(width)
    IN  IF i = 0 /\ made.ret # "Ok" THEN [ret |-> made.ret, mifs |-> ms]
        ELSE
        LET ms1 == IF i = 0
                   THEN Append(ms, [path |-> mif_path, data |-> made.mif])
                   ELSE ms
            k == IF i = 0 THEN Len(ms1) ELSE i
            r == Mif_join(Mif_area(ms1[k].data, path), area, chk)
        IN  [ret |-> r.ret, mifs |-> [ms1 EXCEPT ![k].data = r.mif]]

\* the body of `for mif_path in joins` once the destination file is open:
\* insert the Mif if absent, compare the widths, area(), join()
joins_body(ms, mif_path, width, path, area, chk) ==
    LET i == index_of(ms, mif_path)
        made == Mif_new(width)
    IN  IF i = 0 /\ made.ret # "Ok" THEN [ret |-> made.ret, mifs |-> ms]
        ELSE
        LET ms1 == IF i = 0
                   THEN Append(ms, [path |-> mif_path, data |-> made.mif])
                   ELSE ms
            k == IF i = 0 THEN Len(ms1) ELSE i
        IN  IF ms1[k].data.width # width
            THEN [ret |-> "Different width to join", mifs |-> ms1]
            ELSE LET r == Mif_join(Mif_area(ms1[k].data, path), area, chk)
                 IN  [ret |-> r.ret, mifs |-> [ms1 EXCEPT ![k].data = r.mif]]

-----------------------------------------------------------------------------
(* Inputs of SpecJoin.                                                     *)

\* keys of `files`, in declaration order
BinPaths == <<"a.rom", "b.rom", "c.rom", "d.rom">>
\* destination names used in joins lists
MifPaths == {"x.mif", "y.mif"}

U64(n) == [i \in 1..8 |-> IF i = 8 THEN n ELSE 0]
One(n) == [tag |-> "One", one |-> U64(n), two |-> <<U64(0), U64(0)>>]
Two(msb, lsb) == [tag |-> "Two", one |-> U64(0), two |-> <<U64(msb), U64(lsb)>>]

Skips(l) == [tag |-> "Skips", skips |-> l, joins |-> <<>>]
Joins(l) == [tag |-> "Joins", skips |-> <<>>, joins |-> l]

Instrs ==
    {Skips(l) : l \in {<<>>, <<One(15), Two(0, 255)>>}}
    \cup
    {Joins(l) : l \in {<<"x.mif">>, <<"y.mif", "x.mif">>, <<"x.mif", "x.mif">>}}

AreaWidths == {7, 8, 12}

AreaDepths == 1..2
\* the Area declarations: every combination with a depth of 1 or 2, and an
\* area of depth 0 joined to x.mif
Areas ==
    [first : Firsts, width : AreaWidths, depth : AreaDepths, instr : Instrs]
    \cup {[first |-> "Lsb", width |-> 8, depth |-> 0, instr |-> Joins(<<"x.mif">>)]}

\* contents of the binary files: up to two bytes
Bins == ByteSeqs(2)

Running == [err |-> "Running", n |-> 0]
Err(e) == [err |-> e, n |-> 0]

-----------------------------------------------------------------------------
(* SpecJoin: one run of join().                                            *)

\* `for (bin_path, areas) in files`: the next file opens; every file
\* declares at least one area, as an array of tables `[["a.rom"]]` does
JOpenBin(bytes) ==
    /\ pc = "file" /\ Len(hist) < MaxAreas
    /\ nfiles' = nfiles + 1
    /\ bin_path' = BinPaths[nfiles + 1]
    /\ bin_file' = bytes
    /\ bin_len' = Len(bytes)
    /\ nareas' = 0
    /\ pc' = "area"
    /\ UNCHANGED <<checks, mvars, ret, mif_area, ti, mifs, disk, writes, hist>>

\* the next file cannot be opened
JOpenBinFails ==
    /\ pc = "file" /\ Len(hist) < MaxAreas
    /\ nfiles' = nfiles + 1
    /\ bin_path' = BinPaths[nfiles + 1]
    /\ ret' = Err("Cannot open")
    /\ pc' = "done"
    /\ UNCHANGED <<checks, mvars, bin_file, bin_len, nareas, mif_area, ti,
                   mifs, disk, writes, hist>>

\* `files` has no further entry
JEndFiles ==
    /\ pc = "file"
    /\ pc' = "write"
    /\ ti' = 1
    /\ UNCHANGED <<checks, mvars, ret, nfiles, bin_path, bin_file, bin_len, nareas,
                   mif_area, mifs, disk, writes, hist>>

\* bytes of the words of one declared area: depth * ceil(width / 8)
DeclBytes(a) == a.depth * ((a.width + 7) \div 8)

\* the words a declared area covers, one per word, from the file's bytes
RECURSIVE Chunks(_, _, _, _)
Chunks(bytes, n, size, first) ==
    IF n = 0 \/ Len(bytes) < size THEN <<>>
    ELSE <<read_uint128(SubSeq(bytes, 1, size), size, first)>>
         \o Chunks(SubSeq(bytes, size + 1, Len(bytes)), n - 1, size, first)

\* the loop with the destination files left as they are until the
\* accumulators are written
RECURSIVE joins_arm_open_late(_, _, _, _, _, _, _, _, _)
joins_arm_open_late(ms, dk, joins, i, nofile, width, path, area, chk) ==
    IF i > Len(joins) THEN [ret |-> "Ok", mifs |-> ms, disk |-> dk, used |-> i - 1]
    ELSE IF index_of(ms, joins[i]) = 0 /\ i = nofile
    THEN [ret |-> "Cannot open", mifs |-> ms, disk |-> dk, used |-> i - 1]
    ELSE LET r == joins_body(ms, joins[i], width, path, area, chk)
         IN  IF r.ret # "Ok"
             THEN [ret |-> r.ret, mifs |-> r.mifs, disk |-> dk, used |-> i - 1]
             ELSE joins_arm_open_late(r.mifs, dk, joins, i + 1, nofile, width,
                                      path, area, chk)

\* `for mif_path in joins { ... }` from entry i on; the destination file
\* of entry `nofile` cannot be opened (0: every file opens); used counts the
\* iterations completed
RECURSIVE joins_arm(_, _, _, _, _, _, _, _, _)
joins_arm(ms, dk, joins, i, nofile, width, path, area, chk) ==
    IF i > Len(joins) THEN [ret |-> "Ok", mifs |-> ms, disk |-> dk, used |-> i - 1]
    ELSE IF index_of(ms, joins[i]) = 0 /\ i = nofile
    THEN [ret |-> "Cannot open", mifs |-> ms, disk |-> dk, used |-> i - 1]
    ELSE LET dk1 == IF index_of(ms, joins[i]) = 0
                    THEN [dk EXCEPT ![joins[i]] = "Empty"] ELSE dk
             r == joins_body(ms, joins[i], width, path, area, chk)
         IN  IF r.ret # "Ok"
             THEN [ret |-> r.ret, mifs |-> r.mifs, disk |-> dk1, used |-> i - 1]
             ELSE joins_arm(r.mifs, dk1, joins, i + 1, nofile, width, path,
                            area, chk)

\* `match instr { Skips(skips) => ..., Joins(joins) => ... }`
match_instr(ms, dk, instr, nofile, width, path, area, chk) ==
    IF instr.tag = "Skips"
    THEN LET r == skips_arm(area, instr.skips)
         IN  [ret |-> r, mifs |-> ms, disk |-> dk,
              used |-> IF r = "Ok" THEN 1 ELSE 0]
    ELSE joins_arm(ms, dk, instr.joins, 1, nofile, width, path, area, chk)

\* `for &Area { first, width, depth, ref instr } in areas { ... }`: one
\* iteration: Mif::new, read, match instr
JArea(a, nofile) ==
    /\ pc = "area" /\ Len(hist) < MaxAreas
    /\ nareas' = nareas + 1
    /\ LET made == Mif_new(a.width)
           r == Mif_read(made.mif, bin_file, a.depth, a.first, checks)
           m == match_instr(mifs, disk, a.instr, nofile, a.width, bin_path,
                            r.mif, checks)
       IN  IF made.ret # "Ok"
           THEN /\ ret' = Err(made.ret)
                /\ pc' = "done"
                /\ UNCHANGED <<bin_file, mif_area, mifs, disk, hist>>
           ELSE IF r.ret # "Ok"
           THEN /\ ret' = Err(r.ret)
                /\ pc' = "done"
                /\ bin_file' = r.rest
                /\ UNCHANGED <<mif_area, mifs, disk, hist>>
           ELSE /\ bin_file' = r.rest
                /\ mif_area' = r.mif
                /\ hist' = Append(hist,
                     [file |-> bin_path, width |-> a.width, depth |-> a.depth,
                      instr |-> a.instr, used |-> m.used,
                      words |-> Chunks(bin_file, a.depth,
                                       (a.width + 7) \div 8, a.first)])
                /\ mifs' = m.mifs
                /\ disk' = m.disk
                /\ IF m.ret # "Ok"
                   THEN pc' = "done" /\ ret' = Err(m.ret)
                   ELSE pc' = pc /\ ret' = ret
    /\ UNCHANGED <<checks, mvars, nfiles, bin_path, bin_len, ti, writes>>

\* left-over bytes are reported and the next file is taken all the same
JLeftOver_continue ==
    /\ pc = "area" /\ nareas > 0
    /\ bin_file' = <<>>
    /\ mif_area' = NoMif
    /\ pc' = "file"
    /\ ret' = IF Len(bin_file) = 0 THEN ret
              ELSE [err |-> "B left over", n |-> Len(bin_file)]
    /\ UNCHANGED <<checks, mvars, nfiles, bin_path, bin_len, nareas,
                   ti, mifs, disk, writes, hist>>

\* the areas of the file are exhausted:
\* bin_file.read_to_end(&mut bin_data); ensure!(bin_data.is_empty(), ...)
JLeftOver ==
    /\ pc = "area" /\ nareas > 0
    /\ LET bin_data == bin_file
       IN  /\ bin_file' = <<>>
           /\ mif_area' = NoMif
           /\ IF Len(bin_data) = 0
              THEN pc' = "file" /\ ret' = ret
              ELSE pc' = "done" /\ ret' = [err |-> "B left over", n |-> Len(bin_data)]
    /\ UNCHANGED <<checks, mvars, nfiles, bin_path, bin_len, nareas,
                   ti, mifs, disk, writes, hist>>

\* `for (mif_path, (mut mif_file, mif_data)) in mifs`: one Mif::write
JWrite ==
    /\ pc = "write" /\ ti <= Len(mifs)
    /\ writes' = [writes EXCEPT ![mifs[ti].path] = @ + 1]
    /\ disk' = [disk EXCEPT ![mifs[ti].path] = "Written"]
    /\ ti' = ti + 1
    /\ UNCHANGED <<checks, mvars, pc, ret, nfiles, bin_path, bin_file, bin_len,
                   nareas, mif_area, mifs, hist>>

\* a Mif::write fails
JWriteFails ==
    /\ pc = "write" /\ ti <= Len(mifs)
    /\ pc' = "done"
    /\ ret' = Err("Cannot write")
    /\ UNCHANGED <<checks, mvars, nfiles, bin_path, bin_file, bin_len, nareas,
                   mif_area, ti, mifs, disk, writes, hist>>

\* Ok(())
JReturn ==
    /\ pc = "write" /\ ti > Len(mifs)
    /\ pc' = "done"
    /\ ret' = Err("Ok")
    /\ UNCHANGED <<checks, mvars, nfiles, bin_path, bin_file, bin_len, nareas,
                   mif_area, ti, mifs, disk, writes, hist>>

\* The shift of push overflows at width 128 only, which no declared area
\* of AreaWidths has: the build profile makes no difference to join() here.
\* x.mif exists before the run, y.mif does not.
InitJoin ==
    /\ checks = TRUE
    /\ mif = NoMif /\ call = NoCall /\ total = 0 /\ lines = <<>>
    /\ pc = "file" /\ ret = Running /\ nfiles = 0
    /\ bin_path = "" /\ bin_file = <<>> /\ bin_len = 0 /\ nareas = 0
    /\ mif_area = NoMif /\ ti = 1
    /\ mifs = <<>>
    /\ disk = [p \in MifPaths |-> IF p = "x.mif" THEN "Old" ELSE "Absent"]
    /\ writes = [p \in MifPaths |-> 0]
    /\ hist = <<>>

NextJoin ==
    \/ \E bytes \in Bins : JOpenBin(bytes)
    \/ JOpenBinFails
    \/ JEndFiles
    \/ \E a \in Areas : \E nofile \in 0..Len(a.instr.joins) : JArea(a, nofile)
    \/ JLeftOver
    \/ JWrite
    \/ JWriteFails
    \/ JReturn

SpecJoin == InitJoin /\ [][NextJoin]_vars

-----------------------------------------------------------------------------
(* Properties of the Mif structure, checked under SpecMif.                 *)

\* C1: after any sequence of new, area, push, join and read calls, failed
\* ones included, no two adjacent entries of words() hold the same word.
C1_NoAdjacentEqual ==
    \A i \in 1..(Len(mif.words) - 1) : mif.words[i][1] # mif.words[i + 1][1]

\* a push of the last entry's word was added up into that entry
C1_Witness ==
    /\ call.op = "push" /\ call.ret = "Ok" /\ call.bulk = 1
    /\ Len(mif.words) = 1
    /\ mif.words[1] = <<call.word, 2>>

\* C2: depth() is the sum of the run lengths of all pushes executed, each
\* entry of `other` pushed by a join and each word pushed by a read counted,
\* however many entries words() holds.
C2_DepthIsTotal == mif.depth = total

\* a join whose entry was added up into the last entry: two words, one entry
C2_Witness ==
    /\ call.op = "join" /\ call.ret = "Ok" /\ call.n = 1
    /\ total = 2
    /\ Len(mif.words) = 1

\* C3: Mif::new(width) succeeds exactly when 1 <= width <= 128.
C3_NewAcceptsOneTo128 ==
    call.op = "new" =>
        (call.ret = "Ok" <=> (1 <= call.width /\ call.width <= 128))

\* C4: on a store of width 128 holding no word, push(2^128 - 1, bulk) with
\* bulk >= 1 succeeds and stores that value.
C4_PushAllOnes ==
    (/\ call.op = "push" /\ call.word = AllOnes /\ call.bulk >= 1
     /\ mif.width = 128 /\ mif.depth = call.bulk)
        => (call.ret = "Ok" /\ mif.words = << <<AllOnes, call.bulk>> >>)

\* C5: push(value, 0) returns Ok for every value and leaves depth() and
\* words() unchanged.
C5_ZeroBulkNeverFails ==
    [][(call'.op = "push" /\ call'.bulk = 0)
          => (/\ call'.ret = "Ok"
              /\ mif'.depth = mif.depth
              /\ mif'.words = mif.words)]_vars

\* C11: a read of `depth` words from a source of fewer than depth * align()
\* bytes fails with the error "Not enough words".
C11_ShortSourceNotEnoughWords ==
    [][call'.op = "read" =>
        \A bs \in Readers, d \in 0..MaxBulk, f \in Firsts :
            (Read(bs, d, f) /\ Len(bs) < d * Mif_align(mif)) =>
                call'.ret = "Not enough words"]_vars

\* the words of a run-length sequence, one per word
RECURSIVE Expand(_)
Expand(ws) ==
    IF ws = <<>> THEN <<>>
    ELSE [i \in 1..ws[1][2] |-> ws[1][1]] \o Expand(Tail(ws))

\* ceil(width / 8)
CeilBytes(width) == (width + 7) \div 8

\* the output holds a whole MIF without a comment line
WholeMif ==
    /\ lines # <<>>
    /\ lines[1].kind = "WIDTH"
    /\ lines[Len(lines)].kind = "END"
    /\ \A i \in 1..Len(lines) : lines[i].kind # "--"

\* dump() failed, read no byte of the source and wrote no line
NothingDone ==
    /\ call.ret # "Ok"
    /\ call.left = Len(call.bytes)
    /\ call.n = 0
    /\ lines = <<>>

\* C13 as stated: dump(count, width, first) fails without reading or
\* writing anything when count is no multiple of ceil(width / 8); otherwise
\* it reads exactly count / ceil(width / 8) words and writes one MIF
\* without area comments.
C13_DumpMultipleOrNothing ==
    (call.op = "dump" /\ call.width >= 1) =>
        IF call.bulk % CeilBytes(call.width) # 0
        THEN NothingDone
        ELSE /\ call.ret = "Ok"
             /\ call.n = call.bulk \div CeilBytes(call.width)
             /\ WholeMif

\* C13 amended: with a width Mif::new accepts, dump fails with the
\* multiple error without reading or writing anything when count is no
\* multiple of ceil(width / 8); otherwise it reads at most
\* count / ceil(width / 8) words, writes no line when the read fails, and
\* when it returns Ok it has read exactly that many words, count bytes, and
\* written one MIF without area comments.
C13_DumpMultiple ==
    (call.op = "dump" /\ call.width >= MinWidth /\ call.width <= MaxWidth) =>
        IF call.bulk % CeilBytes(call.width) # 0
        THEN NothingDone /\ call.ret = "No integral multiple of word width"
        ELSE /\ call.ret # "No integral multiple of word width"
             /\ call.n <= call.bulk \div CeilBytes(call.width)
             /\ call.ret \in {"Cannot read input", "Panic"} => lines = <<>>
             /\ call.ret = "Ok" =>
                  /\ call.n = call.bulk \div CeilBytes(call.width)
                  /\ mif.depth = call.n
                  /\ call.left = Len(call.bytes) - call.bulk
                  /\ WholeMif

\* dump of two bytes at width 8 wrote a MIF of two words
C13_Witness ==
    /\ call.op = "dump" /\ call.ret = "Ok"
    /\ call.width = 8 /\ call.bulk = 2 /\ call.n = 2
    /\ WholeMif

\* the number a u128 stands for
RECURSIVE ToNat(_)
ToNat(w) ==
    IF w = <<>> THEN 0 ELSE 256 * ToNat(SubSeq(w, 1, Len(w) - 1)) + w[Len(w)]

\* sum of b[i] * 256^(i - 1) from i on for lsb first, and of
\* b[i] * 256^(Len(b) - i) for msb first
RECURSIVE Decode(_, _, _)
Decode(b, first, i) ==
    IF i > Len(b) THEN 0
    ELSE b[i] * 256 ^ (IF first = "Lsb" THEN i - 1 ELSE Len(b) - i)
         + Decode(b, first, i + 1)

\* number of words a read stored that pushed n words and returned ret
Stored(n, rt) == IF rt \in {"Ok", "UnexpectedEof"} THEN n ELSE n - 1

\* C14: the j-th word read is decoded from the j-th group of align()
\* bytes of the source: the sum of b[i] * 256^i for lsb first, of
\* b[i] * 256^(align - 1 - i) for msb first (i from 0).
C14_ReadDecoding ==
    [][call'.op = "read" =>
        \A bs \in ReadSources, d \in 0..MaxBulk, f \in Firsts :
            Read(bs, d, f) =>
                LET al == CeilBytes(mif.width)
                    ws == Expand(mif'.words)
                    k == Stored(call'.n, call'.ret)
                IN  /\ Len(ws) = Len(Expand(mif.words)) + k
                    /\ \A j \in 1..k :
                         ToNat(ws[Len(ws) - k + j]) =
                             Decode(SubSeq(bs, (j - 1) * al + 1, j * al), f, 1)]_vars

\* a read at width 12 stored the word 0x1FF: the bytes FF 01 lsb first, or
\* 01 FF msb first
C14_Witness ==
    /\ call.op = "read" /\ call.ret = "Ok" /\ call.n = 1
    /\ mif.width = 12
    /\ mif.words = << <<FromNat(511), 1>> >>

\* C15: the depths recorded in areas() never decrease along the log, and
\* none lies beyond depth(), whatever the order of the area, push, join and
\* read calls.
C15_AreasNonDecreasing ==
    /\ \A i \in 1..(Len(mif.areas) - 1) :
         mif.areas[i][1] <= mif.areas[i + 1][1]
    /\ \A i \in 1..Len(mif.areas) : mif.areas[i][1] <= mif.depth

\* an area at 0, a second area behind the words pushed since
C15_Witness ==
    /\ call.op = "area"
    /\ Len(mif.areas) = 2
    /\ mif.areas[1][1] = 0
    /\ mif.areas[2][1] = 2
    /\ Len(mif.words) = 2

\* sum of the run lengths stored in words
StoredRuns(m) == SumBulk(m.words, Len(m.words))

\* the step is a push that fails because the word exceeds the width
PushFails == call'.op = "push" /\ call'.ret = "Word exceeds width"

Fits(v, width) == BitLen(v) <= width

\* other has an entry whose value exceeds the width
HasBad(other, width) ==
    \E k \in 1..Len(other.words) : ~Fits(other.words[k][1], width)

\* the first such entry
FirstBad(other, width) ==
    CHOOSE k \in 1..Len(other.words) :
        /\ ~Fits(other.words[k][1], width)
        /\ \A j \in 1..(k - 1) : Fits(other.words[j][1], width)

\* C17: self.join(other) with a first entry k of other whose value exceeds
\* the width of self returns the error at k: the words of the entries
\* before k are merged into self and stay there, the entries behind k are
\* not pushed, and depth() has grown by the run lengths up to k.
C17_JoinNoRollback ==
    [][call'.op = "join" => \A o \in Others :
        (Join(o) /\ HasBad(o, mif.width)) =>
            LET k == FirstBad(o, mif.width)
            IN  /\ call'.ret = "Word exceeds width"
                /\ call'.n = k
                /\ Expand(mif'.words) =
                       Expand(mif.words) \o Expand(SubSeq(o.words, 1, k - 1))
                /\ mif'.depth = mif.depth + SumBulk(o.words, k)
                /\ mif'.areas = mif.areas]_vars

\* a join failed at the second entry of other; the first one is merged
C17_Witness ==
    /\ call.op = "join" /\ call.ret = "Word exceeds width"
    /\ call.n = 2
    /\ mif.width = 8
    /\ mif.words = << <<FromNat(255), 1>> >>
    /\ mif.depth = 2

\* every value stored in words() is at most 2^width - 1
StoredFit == \A i \in 1..Len(mif.words) : Fits(mif.words[i][1], mif.width)

\* the step is a push of run length 1 or more that does not add to the last
\* entry
PushStartsEntry ==
    /\ call'.op = "push" /\ call'.bulk >= 1
    /\ mif.words = <<>> \/ mif.words[Len(mif.words)][1] # call'.word

\* C18: every value stored in words() of a Mif of width w is at most
\* 2^w - 1, and a push that starts a new entry is accepted exactly when its
\* value is at most 2^w - 1.
C18_StoredFitAndAccepted ==
    /\ []StoredFit
    /\ [][PushStartsEntry =>
            (call'.ret = "Ok" <=> Fits(call'.word, mif.width))]_vars

\* the number a sequence of hexadecimal digits stands for
RECURSIVE Unhex(_)
Unhex(d) ==
    IF d = <<>> THEN 0 ELSE 16 * Unhex(SubSeq(d, 1, Len(d) - 1)) + d[Len(d)]

IsContent(l) == l.kind \in {"single", "range"}

\* the content lines of the output, in order
Content == SelectSeq(lines, IsContent)

\* first and last address of a content line
StartOf(l) == Unhex(l.a)
EndOf(l) == IF l.kind = "single" THEN Unhex(l.a) ELSE Unhex(l.b)

\* a write or dump ran to its end
Written == call.op \in {"write", "dump"} /\ call.ret = "Ok"

\* C19: write emits one content line per entry of words(), in order: a
\* single address for a run of 1 and a range [start..end] with
\* end = start + run - 1 otherwise; the first line starts at 0, each line
\* starts one past the end of the line before, and the last line ends at
\* depth() - 1 when no push on the Mif has failed.
C19_ContentLines ==
    Written =>
        /\ Len(Content) = Len(mif.words)
        /\ \A i \in 1..Len(Content) :
             /\ Content[i].kind = IF mif.words[i][2] = 1 THEN "single" ELSE "range"
             /\ Unhex(Content[i].w) = ToNat(mif.words[i][1])
             /\ StartOf(Content[i]) = IF i = 1 THEN 0 ELSE EndOf(Content[i - 1]) + 1
             /\ EndOf(Content[i]) = StartOf(Content[i]) + mif.words[i][2] - 1
        /\ (mif.words # <<>> /\ mif.depth = StoredRuns(mif)) =>
             EndOf(Content[Len(Content)]) = mif.depth - 1

\* a Mif of the words FF, FF is written as the range 0..1
C19_Witness ==
    /\ call.op = "write" /\ call.ret = "Ok"
    /\ mif.words = << <<FromNat(255), 2>> >>
    /\ mif.depth = 2
    /\ Len(Content) = 1
    /\ Content[1].kind = "range"
    /\ Content[1].a = <<0>> /\ Content[1].b = <<1>>

\* the kinds of the lines of the output, in order
Kinds == [i \in 1..Len(lines) |-> lines[i].kind]

\* position of the first line of a kind, 0 if there is none
FirstOf(kind) ==
    IF \E i \in 1..Len(lines) : lines[i].kind = kind
    THEN CHOOSE i \in 1..Len(lines) :
             /\ lines[i].kind = kind
             /\ \A j \in 1..(i - 1) : lines[j].kind # kind
    ELSE 0

\* comments are asked for and there is an area to comment
Commented == call.areas /\ mif.areas # <<>>

HeaderKinds ==
    <<"WIDTH", "DEPTH", "", "ADDRESS_RADIX", "DATA_RADIX", "", "CONTENT BEGIN">>

\* one comment line per area, in log order, with its depth and label
CommentsMatchLog ==
    \A i \in 1..Len(mif.areas) :
        /\ lines[i].kind = "--"
        /\ Unhex(lines[i].a) = mif.areas[i][1]
        /\ lines[i].text = mif.areas[i][2]

\* C20 as stated: with comments enabled and a non-empty area log the
\* output is the header (WIDTH, DEPTH, ADDRESS_RADIX, DATA_RADIX), then one
\* comment line per area in log order and a blank line, then the content
\* lines, then END; otherwise there is no comment line.
C20_HeaderThenComments ==
    Written =>
        IF Commented
        THEN /\ Kinds[1] = "WIDTH"
             /\ FirstOf("DATA_RADIX") < FirstOf("--")
             /\ SubSeq(Kinds, FirstOf("--"), FirstOf("--") + Len(mif.areas))
                    = [i \in 1..Len(mif.areas) |-> "--"] \o <<"">>
             /\ Content = <<>> \/ FirstOf("--") + Len(mif.areas) < FirstOf(Content[1].kind)
             /\ Kinds[Len(Kinds)] = "END"
        ELSE FirstOf("--") = 0

\* C20 amended: with comments enabled and a non-empty area log the output
\* is one comment line per area in log order and a blank line, then the
\* header (WIDTH, DEPTH, blank, ADDRESS_RADIX, DATA_RADIX, blank, CONTENT
\* BEGIN), then the content lines, then END; otherwise the output starts
\* with the header and has no comment line.
C20_CommentsThenHeader ==
    Written =>
        /\ Kinds = (IF Commented
                    THEN [i \in 1..Len(mif.areas) |-> "--"] \o <<"">>
                    ELSE <<>>)
                   \o HeaderKinds
                   \o [i \in 1..Len(Content) |-> Content[i].kind]
                   \o <<"END">>
        /\ Commented => CommentsMatchLog
        /\ lines[FirstOf("WIDTH")].text = ToString(mif.width)
        /\ lines[FirstOf("DEPTH")].text = ToString(mif.depth)

\* a Mif with two areas is written with comments: two comment lines and a
\* blank line precede WIDTH
C20_Witness ==
    /\ call.op = "write" /\ call.ret = "Ok" /\ call.areas
    /\ Len(mif.areas) = 2 /\ mif.words # <<>>
    /\ lines[1].kind = "--" /\ lines[2].kind = "--"
    /\ lines[3].kind = ""
    /\ lines[4].kind = "WIDTH"

\* every entry of words() stands for one word or more
RunsPositive == \A i \in 1..Len(mif.words) : mif.words[i][2] >= 1

\* the step is a push of run length 0
ZeroPush == call'.op = "push" /\ call'.bulk = 0

\* no content line of the output ends below its start
EndsNotBelowStarts ==
    \A i \in 1..Len(Content) : EndOf(Content[i]) >= StartOf(Content[i])

\* C21: in every reachable state of a Mif every entry of words() has a run
\* length of 1 or more: a push of run length 0 leaves words() as it is, so
\* it neither creates an entry nor reduces a run, and no content line that
\* write emits ends at an address below its start.
C21_RunsAtLeastOne ==
    /\ [](RunsPositive /\ EndsNotBelowStarts)
    /\ [][ZeroPush => mif'.words = mif.words]_vars

\* a push of run length 0 of a word that fits and differs from the last
\* entry is accepted and leaves the one entry there is
C21_Witness ==
    /\ call.op = "push" /\ call.bulk = 0 /\ call.ret = "Ok"
    /\ call.word = FromNat(0)
    /\ mif.words = << <<FromNat(255), 2>> >>
    /\ mif.depth = 2

-----------------------------------------------------------------------------
(* Properties of join(), checked under SpecJoin.                           *)

\* the join uses of an area that ran to their end
UsesOf(e) ==
    IF e.instr.tag = "Joins" THEN SubSeq(e.instr.joins, 1, e.used) ELSE <<>>

\* number of entries of `uses` equal to t
Count(t, uses) == Cardinality({j \in 1..Len(uses) : uses[j] = t})

\* s repeated n times
RECURSIVE Repeat(_, _)
Repeat(s, n) == IF n = 0 THEN <<>> ELSE s \o Repeat(s, n - 1)

\* words of the areas of hist[k..] whose joins list names t, each area once
RECURSIVE WordsOnce(_, _)
WordsOnce(t, k) ==
    IF k > Len(hist) THEN <<>>
    ELSE (IF Count(t, UsesOf(hist[k])) > 0 THEN hist[k].words ELSE <<>>)
         \o WordsOnce(t, k + 1)

\* words of the areas of hist[k..], each once per entry of its joins list
\* that names t
RECURSIVE WordsPerUse(_, _)
WordsPerUse(t, k) ==
    IF k > Len(hist) THEN <<>>
    ELSE Repeat(hist[k].words, Count(t, UsesOf(hist[k]))) \o WordsPerUse(t, k + 1)

Named == UNION {{UsesOf(hist[k])[j] : j \in 1..Len(UsesOf(hist[k]))} :
                  k \in 1..Len(hist)}

Succeeded == pc = "done" /\ ret.err = "Ok"

\* C6 as stated: after a successful run every accumulator holds the words
\* of the areas whose joins list names it, each area once, in declaration
\* order, and nothing of the skips areas.
C6_EachAreaOnce ==
    Succeeded =>
        /\ {mifs[i].path : i \in 1..Len(mifs)} = Named
        /\ \A i \in 1..Len(mifs) :
             Expand(mifs[i].data.words) = WordsOnce(mifs[i].path, 1)

\* C6 amended: after a successful run every accumulator holds, in
\* declaration order, the words of the areas whose joins list names it, the
\* words of an area once per entry of its joins list that names the target,
\* and nothing of the skips areas.
C6_EachAreaPerUse ==
    Succeeded =>
        /\ {mifs[i].path : i \in 1..Len(mifs)} = Named
        /\ \A i \in 1..Len(mifs) :
             Expand(mifs[i].data.words) = WordsPerUse(mifs[i].path, 1)

\* two areas of two files with different words joined to x.mif, which holds
\* the words of a.rom before those of b.rom
C6_Witness ==
    /\ Succeeded
    /\ Len(hist) = 2
    /\ hist[1].file = "a.rom" /\ hist[2].file = "b.rom"
    /\ hist[1].instr = Joins(<<"x.mif">>)
    /\ hist[2].instr = Joins(<<"y.mif", "x.mif">>)
    /\ hist[1].words = <<FromNat(255), FromNat(255)>>
    /\ hist[2].words = <<FromNat(0)>>
    /\ mifs[1].path = "x.mif"
    /\ mifs[1].data.words = << <<FromNat(255), 2>>, <<FromNat(0), 1>> >>

\* the area log join() is to leave on target t: one entry per join use, in
\* declaration order, at the number n of words joined into t before it
RECURSIVE LogFrom(_, _, _, _)
LogFrom(t, k, j, n) ==
    IF k > Len(hist) THEN <<>>
    ELSE IF j > Len(UsesOf(hist[k])) THEN LogFrom(t, k + 1, 1, n)
    ELSE IF UsesOf(hist[k])[j] = t
    THEN << <<n, hist[k].file>> >>
         \o LogFrom(t, k, j + 1, n + Len(hist[k].words))
    ELSE LogFrom(t, k, j + 1, n)

\* C7: every join use records on its accumulator, before the area's words
\* are merged, one entry (d, file name), d the number of words joined into
\* that target earlier; the log has one entry per join use, in declaration
\* order.
C7_AreaLog ==
    \A i \in 1..Len(mifs) :
        mifs[i].data.areas = LogFrom(mifs[i].path, 1, 1, 0)

\* x.mif holds the areas of a.rom at 0 and of b.rom behind its words
C7_Witness ==
    /\ Succeeded
    /\ \E i \in 1..Len(mifs) :
         /\ mifs[i].path = "x.mif"
         /\ Len(mifs[i].data.areas) = 2
         /\ mifs[i].data.areas[1] = <<0, "a.rom">>
         /\ mifs[i].data.areas[2] = <<2, "b.rom">>

\* every word of the area is a member of the expected list
SkipOk(e) ==
    \A i \in 1..Len(e.words) :
        \E j \in 1..Len(e.instr.skips) : e.words[i] = as_word(e.instr.skips[j])

\* C8: a skips area with a non-empty list passes exactly when every word of
\* the area is a member of the list, and join() fails with the skip error
\* otherwise; with an empty list it passes whatever its words are.
C8_SkipVerification ==
    \A k \in 1..Len(hist) :
        hist[k].instr.tag = "Skips" =>
            /\ hist[k].used = 1 <=> (hist[k].instr.skips = <<>> \/ SkipOk(hist[k]))
            /\ hist[k].used = 0 =>
                 (k = Len(hist) /\ pc = "done" /\ ret.err = "Invalid word to skip")

\* a skips area of two words 255 passed the list [15, [0, 255]]
C8_Witness ==
    /\ ret = Running
    /\ \E k \in 1..Len(hist) :
         /\ hist[k].instr = Skips(<<One(15), Two(0, 255)>>)
         /\ hist[k].words = <<FromNat(255), FromNat(255)>>
         /\ hist[k].used = 1

\* bytes declared by the areas read from the current file
RECURSIVE Declared(_)
Declared(k) ==
    IF k > Len(hist) THEN 0
    ELSE (IF hist[k].file = bin_path THEN DeclBytes(hist[k]) ELSE 0)
         + Declared(k + 1)

\* C9: once the areas of a file are read, join() fails with the left-over
\* error when L > 0 bytes are unread, reporting L = file length - sum of
\* depth * ceil(width / 8) over its areas; with L = 0 the file passes.
C9_LeftOver ==
    /\ ret.err = "B left over" =>
         (ret.n > 0 /\ ret.n = bin_len - Declared(1))
    /\ (nfiles > 0 /\ (pc \in {"file", "write"} \/ ret.err = "Ok")) =>
         bin_len = Declared(1)

\* one byte is left over behind an area of one byte
C9_Witness ==
    /\ pc = "done" /\ ret = [err |-> "B left over", n |-> 1]
    /\ bin_len = 2
    /\ Declared(1) = 1

\* width of the first join use of t
FirstWidth(t) ==
    LET k == CHOOSE k \in 1..Len(hist) :
                 /\ Count(t, UsesOf(hist[k])) > 0
                 /\ \A l \in 1..(k - 1) : Count(t, UsesOf(hist[l])) = 0
    IN  hist[k].width

\* the join use at which the last area stopped is one of an existing
\* target of another width
PendingMismatch ==
    /\ hist # <<>>
    /\ LET e == hist[Len(hist)]
       IN  /\ e.instr.tag = "Joins"
           /\ e.used < Len(e.instr.joins)
           /\ index_of(mifs, e.instr.joins[e.used + 1]) # 0
           /\ mifs[index_of(mifs, e.instr.joins[e.used + 1])].data.width # e.width

\* C10: an accumulator has the width of the first join use of its target;
\* no join use of another width goes through: join() fails there with the
\* width error, and nothing is written for the target.
C10_WidthMismatch ==
    /\ \A i \in 1..Len(mifs) :
         /\ mifs[i].path \in Named
         /\ mifs[i].data.width = FirstWidth(mifs[i].path)
    /\ \A k \in 1..Len(hist) : \A j \in 1..Len(UsesOf(hist[k])) :
         hist[k].width = FirstWidth(UsesOf(hist[k])[j])
    /\ PendingMismatch <=> ret.err = "Different width to join"
    /\ ret.err = "Different width to join" =>
         LET e == hist[Len(hist)]
             t == e.instr.joins[e.used + 1]
         IN  pc = "done" /\ writes[t] = 0 /\ disk[t] # "Written"

\* x.mif was created with width 8 and a later area of width 12 names it
C10_Witness ==
    /\ ret.err = "Different width to join"
    /\ Len(hist) = 2
    /\ hist[1].width = 8 /\ hist[2].width = 12
    /\ hist[2].instr.joins[hist[2].used + 1] = "x.mif"
    /\ disk["x.mif"] = "Empty"

\* the run ended with an error raised while the files and areas were read
Unprocessed == ret.err \notin {"Running", "Ok", "Cannot write"}

\* number of Mif::write calls made for the accumulator of target p
Serialized(p) == writes[p]

\* C12 as stated: no accumulator is serialized before all areas of all
\* files are processed nor when an open, read, value range, skip, width or
\* left-over check fails; when none of these fails, every accumulator is
\* serialized exactly once.
C12_AllOrNothing ==
    /\ (pc \in {"file", "area"} \/ Unprocessed) =>
         \A p \in MifPaths : Serialized(p) = 0
    /\ (pc = "done" /\ ~Unprocessed) =>
         \A i \in 1..Len(mifs) : Serialized(mifs[i].path) = 1

\* C12 amended: no accumulator is serialized before all areas of all files
\* are processed nor when one of these checks fails; otherwise the
\* accumulators are serialized in creation order, each at most once: all of
\* them exactly once when join() returns Ok, and the ones created before the
\* failing one when a write fails.
C12_SerializeAfterAll ==
    /\ (pc \in {"file", "area"} \/ Unprocessed) =>
         \A p \in MifPaths : Serialized(p) = 0
    /\ \A p \in MifPaths :
         Serialized(p) =
             IF \E i \in 1..Len(mifs) : mifs[i].path = p /\ i < ti
             THEN 1 ELSE 0
    /\ ret.err = "Ok" => (pc = "done" /\ ti = Len(mifs) + 1)
    /\ ret.err = "Cannot write" => (pc = "done" /\ ti <= Len(mifs))

\* join() returned Ok with two accumulators, each serialized once
C12_Witness ==
    /\ pc = "done" /\ ret.err = "Ok"
    /\ Len(mifs) = 2
    /\ Serialized(mifs[1].path) = 1 /\ Serialized(mifs[2].path) = 1

\* the destination file of target p before the run
Before(p) == IF p = "x.mif" THEN "Old" ELSE "Absent"

\* C22: join() creates and truncates the destination file of a target at
\* the first join use of that target, before the remaining areas and files
\* are processed: while files and areas are processed, and when the run ends
\* with an error raised there, the destination file of every target used so
\* far exists and is empty, its previous content lost, and the destination
\* file of every other target is as it was before the run.
C22_TruncatedAtFirstUse ==
    (pc \in {"file", "area"} \/ Unprocessed) =>
        \A p \in MifPaths :
            disk[p] = IF p \in Named THEN "Empty" ELSE Before(p)

\* the first area is joined to y.mif and x.mif and the second area fails
\* its skip verification: x.mif, which held a Mif before the run, and
\* y.mif, which did not exist, are both left empty
C22_Witness ==
    /\ pc = "done" /\ ret.err = "Invalid word to skip"
    /\ Len(hist) = 2
    /\ hist[1].instr = Joins(<<"y.mif", "x.mif">>) /\ hist[1].used = 2
    /\ hist[2].instr.tag = "Skips"
    /\ disk["x.mif"] = "Empty" /\ disk["y.mif"] = "Empty"
    /\ writes["x.mif"] = 0 /\ writes["y.mif"] = 0

=============================================================================
